---- MODULE Spec2Model ----
(***************************************************************************)
(* PerfectFit Print (src/perfectfit_print.py): the crop / DPI geometry of  *)
(* _compute_crop_and_dpi, the preview projection of draw_preview and       *)
(* _draw_overlays, the lock-scale handler on_scale_changed, and the export *)
(* sequence of perfectfit_print_run.                                       *)
(*                                                                         *)
(* Numbers.  The program computes with Python floats.  The model computes  *)
(* with exact rationals <<n, d>> (d > 0, lowest terms): a Python float     *)
(* expression is read as the real expression it rounds.  int() truncates   *)
(* toward zero (Trunc), // floors (\div), round() rounds half to even      *)
(* (RoundHalfEven).                                                        *)
(***************************************************************************)
EXTENDS Integers, Sequences, FiniteSets, TLC

VARIABLES
  image,      \* the source image: [width, height] in pixels
  viewport,   \* the preview area's allocation: [width, height]
  cfg,        \* the procedure config's properties
  adj,        \* the four Gtk.Adjustment values bound to cfg
  cascade,    \* what the last scale change's handler cascade did
  export,     \* the last result of _compute_crop_and_dpi
  preview,    \* the last result of draw_preview
  pc,         \* position in perfectfit_print_run
  dup,        \* the working duplicate: "none", "alive" or "deleted"
  calls,      \* the calls made on the host (Gimp), in order
  status      \* the returned PDB status, "" while running

vars == <<image, viewport, cfg, adj, cascade, export, preview, pc, dup, calls, status>>

----------------------------------------------------------------------------
(* Bounds of the model *)

\* scale values are 1 + k/ScaleSteps, k in 0..ScaleSteps
ScaleSteps == 2
\* offset values are -1/2 + k/OffsetSteps, k in 0..OffsetSteps
OffsetSteps == 2
\* target width and height are 0..MaxTarget
MaxTarget == 1
\* nested signal emissions one user change may run before the model gives up
MaxCascade == 12

----------------------------------------------------------------------------
(* Exact rationals *)

RECURSIVE GCD(_, _)
GCD(a, b) == IF b = 0 THEN a ELSE GCD(b, a % b)

Abs(a) == IF a < 0 THEN -a ELSE a

Rat(n, d) ==
  LET s == IF d < 0 THEN -1 ELSE 1
      g == GCD(Abs(n), Abs(d))
  IN  <<(s * n) \div g, (s * d) \div g>>

RInt(i) == <<i, 1>>
RAdd(a, b) == Rat(a[1] * b[2] + b[1] * a[2], a[2] * b[2])
RSub(a, b) == Rat(a[1] * b[2] - b[1] * a[2], a[2] * b[2])
RMul(a, b) == Rat(a[1] * b[1], a[2] * b[2])
RDiv(a, b) == Rat(a[1] * b[2], a[2] * b[1])
\* the sign of n1/d1 - n2/d2, by continued fractions (no product is formed)
RECURSIVE RCmp(_, _, _, _)
RCmp(n1, d1, n2, d2) ==
  LET q1 == n1 \div d1
      q2 == n2 \div d2
      r1 == n1 % d1
      r2 == n2 % d2
  IN  IF q1 < q2 THEN -1
      ELSE IF q1 > q2 THEN 1
      ELSE IF r1 = 0 /\ r2 = 0 THEN 0
      ELSE IF r1 = 0 THEN -1
      ELSE IF r2 = 0 THEN 1
      ELSE RCmp(d2, r2, d1, r1)

RLt(a, b) == RCmp(a[1], a[2], b[1], b[2]) < 0
RLe(a, b) == RCmp(a[1], a[2], b[1], b[2]) <= 0
RMin(a, b) == IF RLe(a, b) THEN a ELSE b
RMax(a, b) == IF RLe(a, b) THEN b ELSE a
RAbs(a) == <<Abs(a[1]), a[2]>>
Half == <<1, 2>>

\* Python int(x): truncation toward zero
Trunc(a) == IF a[1] >= 0 THEN a[1] \div a[2] ELSE -((-a[1]) \div a[2])

\* Python round(x): nearest integer, ties to the even one
RoundHalfEven(a) ==
  LET q == a[1] \div a[2]
      r == a[1] % a[2]
  IN  IF 2 * r < a[2] THEN q
      ELSE IF 2 * r > a[2] THEN q + 1
      ELSE IF q % 2 = 0 THEN q ELSE q + 1

IMax(a, b) == IF a >= b THEN a ELSE b

----------------------------------------------------------------------------
(* Values of the host *)

None == <<>>

\* Gimp.Unit.get_factor: units per inch; the pixel unit has factor 0
Units == {"inch", "mm", "pixel"}
get_factor(unit) ==
  CASE unit = "inch" -> <<1, 1>>
    [] unit = "mm" -> <<127, 5>>
    [] OTHER -> <<0, 1>>

ScaleValues == {Rat(ScaleSteps + k, ScaleSteps) : k \in 0..ScaleSteps}
OffsetValues == {RSub(Rat(k, OffsetSteps), Half) : k \in 0..OffsetSteps}
TargetValues == 0..MaxTarget

----------------------------------------------------------------------------
(* Export math helpers *)

\* _compute_target_inches with a unit of factor 0 taken as inches
TargetInches_DefaultFactor(config) ==
  LET target_width == RInt(config.width)
      target_height == RInt(config.height)
      f == get_factor(config.unit)
      factor == IF f[1] = 0 THEN <<1, 1>> ELSE f
  IN  IF target_width[1] <= 0 \/ target_height[1] <= 0 THEN <<None, None>>
      ELSE <<RDiv(target_width, factor), RDiv(target_height, factor)>>

\* _compute_target_inches: <<width_in, height_in>>, or <<None, None>> if invalid
_compute_target_inches(config) ==
  LET target_width == RInt(config.width)
      target_height == RInt(config.height)
      factor == get_factor(config.unit)
  IN  IF target_width[1] <= 0 \/ target_height[1] <= 0 THEN <<None, None>>
      ELSE IF factor[1] = 0 THEN <<None, None>>
      ELSE LET target_width_in == RDiv(target_width, factor)
               target_height_in == RDiv(target_height, factor)
           IN  IF target_width_in[1] <= 0 \/ target_height_in[1] <= 0
               THEN <<None, None>>
               ELSE <<target_width_in, target_height_in>>

\* Python's "not x" for a float or None
Falsy(x) == x = None \/ x[1] = 0

\* the aspect fit with the width-constrained height multiplied by the aspect
AspectFit_Multiplied(full_sel_w, full_sel_h, selection_aspect, target_aspect) ==
  IF RLt(selection_aspect, target_aspect)
  THEN <<full_sel_w, RMul(full_sel_w, target_aspect)>>
  ELSE <<RMul(full_sel_h, target_aspect), full_sel_h>>

\* the aspect fit with the comparison the other way round
AspectFit_Flipped(full_sel_w, full_sel_h, selection_aspect, target_aspect) ==
  IF RLt(target_aspect, selection_aspect)
  THEN <<full_sel_w, RDiv(full_sel_w, target_aspect)>>
  ELSE <<RMul(full_sel_h, target_aspect), full_sel_h>>

\* the aspect fit with the height-constrained width divided by the aspect
AspectFit_HeightDivided(full_sel_w, full_sel_h, selection_aspect, target_aspect) ==
  IF RLt(selection_aspect, target_aspect)
  THEN <<full_sel_w, RDiv(full_sel_w, target_aspect)>>
  ELSE <<RDiv(full_sel_h, target_aspect), full_sel_h>>

\* the aspect fit of _compute_crop_and_dpi: <<cropped_sel_w, cropped_sel_h>>
AspectFit(full_sel_w, full_sel_h, selection_aspect, target_aspect) ==
  IF RLt(selection_aspect, target_aspect)
  THEN <<full_sel_w, RDiv(full_sel_w, target_aspect)>>
  ELSE <<RMul(full_sel_h, target_aspect), full_sel_h>>

\* the crop origin with the offset not shifted by 0.5
CropOrigin_Unshifted(img_px, full_sel, cropped_sel, offset) ==
  LET sel_origin == RDiv(RSub(img_px, full_sel), RInt(2))
      crop_offset == RMul(RSub(full_sel, cropped_sel), offset)
  IN  RAdd(sel_origin, crop_offset)

\* the crop origin with the slack's parentheses lost: the crop extent alone
\* is scaled by the offset
CropOrigin_SlackUnparenthesised(img_px, full_sel, cropped_sel, offset) ==
  LET sel_origin == RDiv(RSub(img_px, full_sel), RInt(2))
      crop_offset == RSub(full_sel, RMul(cropped_sel, RAdd(offset, Half)))
  IN  RAdd(sel_origin, crop_offset)

\* the crop origin with the slack measured against the image instead of the
\* selection
CropOrigin_ImageSlack(img_px, full_sel, cropped_sel, offset) ==
  LET sel_origin == RDiv(RSub(img_px, full_sel), RInt(2))
      crop_offset == RMul(RSub(img_px, cropped_sel), RAdd(offset, Half))
  IN  RAdd(sel_origin, crop_offset)

\* the crop origin of _compute_crop_and_dpi along one axis: the selection is
\* centred in the image and the crop is placed in the selection's slack
CropOrigin(img_px, full_sel, cropped_sel, offset) ==
  LET sel_origin == RDiv(RSub(img_px, full_sel), RInt(2))
      crop_offset == RMul(RSub(full_sel, cropped_sel), RAdd(offset, Half))
  IN  RAdd(sel_origin, crop_offset)

\* the local variables of _compute_crop_and_dpi past its early return
\* (defined for a valid target and a source of height > 0)
_crop_locals(new_image, config) ==
  LET img_width_px == RInt(new_image.width)
      img_height_px == RInt(new_image.height)
      t == _compute_target_inches(config)
      target_width_in == t[1]
      target_height_in == t[2]
      full_sel_w == RDiv(img_width_px, config.x_scale)
      full_sel_h == RDiv(img_height_px, config.y_scale)
      selection_aspect == RDiv(full_sel_w, full_sel_h)
      target_aspect == RDiv(target_width_in, target_height_in)
      fit == AspectFit(full_sel_w, full_sel_h, selection_aspect, target_aspect)
      cropped_sel_w == fit[1]
      cropped_sel_h == fit[2]
  IN  [ full_sel_w |-> full_sel_w, full_sel_h |-> full_sel_h,
        selection_aspect |-> selection_aspect, target_aspect |-> target_aspect,
        cropped_sel_w |-> cropped_sel_w, cropped_sel_h |-> cropped_sel_h,
        dpi_x |-> RDiv(cropped_sel_w, target_width_in),
        dpi_y |-> RDiv(cropped_sel_h, target_height_in),
        crop_origin_x |-> CropOrigin(img_width_px, full_sel_w, cropped_sel_w,
                                     config.x_offset),
        crop_origin_y |-> CropOrigin(img_height_px, full_sel_h, cropped_sel_h,
                                     config.y_offset),
        target_width_in |-> target_width_in,
        target_height_in |-> target_height_in ]

\* what _compute_crop_and_dpi returns: [none |-> TRUE] for None, [raised |-> e]
\* when it raises (the selection aspect divides by a zero selection height),
\* else the dict
CropNone == [none |-> TRUE]
IsNone(x) == "none" \in DOMAIN x
IsRaised(x) == "raised" \in DOMAIN x
IsDict(x) == "offx" \in DOMAIN x

_compute_crop_and_dpi(new_image, config) ==
  LET t == _compute_target_inches(config)
  IN  IF Falsy(t[1]) \/ Falsy(t[2]) THEN CropNone
      ELSE IF new_image.height = 0 THEN [raised |-> "ZeroDivisionError"]
      ELSE LET l == _crop_locals(new_image, config)
           IN  [ dpi_x |-> l.dpi_x,
                 dpi_y |-> l.dpi_y,
                 offx |-> RoundHalfEven(l.crop_origin_x),
                 offy |-> RoundHalfEven(l.crop_origin_y),
                 width |-> RoundHalfEven(l.cropped_sel_w),
                 height |-> RoundHalfEven(l.cropped_sel_h),
                 target_width_in |-> l.target_width_in,
                 target_height_in |-> l.target_height_in ]

----------------------------------------------------------------------------
(* Thumbnail / preview helpers *)

\* the side of the box the base thumbnail is fitted into
ThumbBox == 1024

\* _get_base_thumbnail: the thumbnail's [width, height], None for no image
\* or a zero dimension (image.get_thumbnail gives the requested size)
_get_base_thumbnail(img) ==
  IF img.width = 0 \/ img.height = 0 THEN None
  ELSE LET img_aspect == Rat(img.width, img.height)
           landscape == RLt(RInt(1), img_aspect)
           target_width == IF landscape THEN ThumbBox
                           ELSE Trunc(RMul(RInt(ThumbBox), img_aspect))
           target_height == IF landscape THEN Trunc(RDiv(RInt(ThumbBox), img_aspect))
                            ELSE ThumbBox
       IN  [width |-> IMax(1, target_width), height |-> IMax(1, target_height)]

\* _get_zoomed_view: the zoomed pixbuf's [width, height]
_get_zoomed_view(base_thumbnail, x_scale, y_scale) ==
  IF base_thumbnail = None THEN base_thumbnail
  ELSE [width |-> Trunc(RMul(RInt(base_thumbnail.width), x_scale)),
        height |-> Trunc(RMul(RInt(base_thumbnail.height), y_scale))]

\* _draw_overlays with the slack taken as the whole displayed extent
_draw_overlays_FullSlop(thumb_w, thumb_h, dest_x, dest_y, x_offset, y_offset, crop_w, crop_h) ==
  LET x_slop == thumb_w
      y_slop == thumb_h
  IN  [ crop_x |-> RMax(RInt(0),
                        RAdd(RInt(dest_x), RMul(RAdd(x_offset, Half), RInt(x_slop)))),
        crop_y |-> RMax(RInt(0),
                        RAdd(RInt(dest_y), RMul(RAdd(y_offset, Half), RInt(y_slop)))) ]

\* _draw_overlays: where the dashed crop rectangle is drawn
_draw_overlays(thumb_w, thumb_h, dest_x, dest_y, x_offset, y_offset, crop_w, crop_h) ==
  LET x_slop == thumb_w - crop_w
      y_slop == thumb_h - crop_h
  IN  [ crop_x |-> RMax(RInt(0),
                        RAdd(RInt(dest_x), RMul(RAdd(x_offset, Half), RInt(x_slop)))),
        crop_y |-> RMax(RInt(0),
                        RAdd(RInt(dest_y), RMul(RAdd(y_offset, Half), RInt(y_slop)))) ]

\* draw_preview: [placeholder |-> TRUE] when there is no thumbnail,
\* [raised |-> e] when the crop size in the base thumbnail is 0 (target width
\* 0 with a positive target height), else the image placement and the crop
\* rectangle in viewport pixels
IsPlaceholder(x) == "placeholder" \in DOMAIN x
IsPlacement(x) == "dest_x" \in DOMAIN x

draw_preview(img, config, adjs, alloc) ==
  LET preview_width == alloc.width
      preview_height == alloc.height
      base_thumbnail == _get_base_thumbnail(img)
  IN  IF base_thumbnail = None THEN [placeholder |-> TRUE]
      ELSE
      LET x_scale == adjs.x_scale
          y_scale == adjs.y_scale
          x_offset == adjs.x_offset
          y_offset == adjs.y_offset
          zoomed_thumbnail == _get_zoomed_view(base_thumbnail, x_scale, y_scale)
          base_w == base_thumbnail.width
          base_h == base_thumbnail.height
          thumb_w == zoomed_thumbnail.width
          thumb_h == zoomed_thumbnail.height
          base_aspect == Rat(base_w, base_h)
          target_aspect == IF config.height > 0 THEN Rat(config.width, config.height)
                           ELSE base_aspect
          wide == RLt(base_aspect, target_aspect)
      IN  IF ~wide /\ target_aspect[1] = 0 THEN [raised |-> "ZeroDivisionError"]
          ELSE
          LET crop_w_in_base == IF wide THEN RInt(base_w)
                                ELSE RMul(RInt(base_h), target_aspect)
              crop_h_in_base == IF wide THEN RDiv(RInt(base_w), target_aspect)
                                ELSE RInt(base_h)
              scale_for_crop_w == RDiv(RInt(preview_width), crop_w_in_base)
              scale_for_crop_h == RDiv(RInt(preview_height), crop_h_in_base)
              display_scale == RMin(scale_for_crop_w, scale_for_crop_h)
              display_w == IMax(1, Trunc(RMul(RInt(thumb_w), display_scale)))
              display_h == IMax(1, Trunc(RMul(RInt(thumb_h), display_scale)))
              crop_w_display == Trunc(RMul(crop_w_in_base, display_scale))
              crop_h_display == Trunc(RMul(crop_h_in_base, display_scale))
              x_slop_display == display_w - crop_w_display
              y_slop_display == display_h - crop_h_display
              x_preview_space == preview_width - crop_w_display
              y_preview_space == preview_height - crop_h_display
              x_shift_needed == x_slop_display - x_preview_space
              y_shift_needed == y_slop_display - y_preview_space
              dest_x == ((preview_width - display_w) \div 2)
                          - Trunc(RMul(x_offset, RInt(x_shift_needed)))
              dest_y == ((preview_height - display_h) \div 2)
                          - Trunc(RMul(y_offset, RInt(y_shift_needed)))
              o == _draw_overlays(display_w, display_h, dest_x, dest_y,
                                  x_offset, y_offset, crop_w_display, crop_h_display)
          IN  [ dest_x |-> dest_x, dest_y |-> dest_y,
                display_w |-> display_w, display_h |-> display_h,
                crop_x |-> o.crop_x, crop_y |-> o.crop_y,
                crop_w_display |-> crop_w_display,
                crop_h_display |-> crop_h_display ]

----------------------------------------------------------------------------
(* The dialog: update_calculations and the lock-scale handler cascade *)

\* update_calculations: the info label it sets, "raised" when the selection
\* aspect divides by a zero selection height
update_calculations(img, config, adjs) ==
  IF config.width <= 0 \/ config.height <= 0 THEN "Width and Height must be positive."
  ELSE IF get_factor(config.unit)[1] = 0 THEN "Cannot get conversion factor"
  ELSE IF img.height = 0 THEN "raised"
  ELSE "DPI"

Other(p) == IF p = "x_scale" THEN "y_scale" ELSE "x_scale"

\* on_scale_changed without the comparison before the write
on_scale_changed_Unguarded(st, p) ==
  IF ~st.cfg.lock_scale
  THEN [st EXCEPT !.log = Append(@, <<p, "", st.cfg[Other(p)] # st.adj[p]>>)]
  ELSE [st EXCEPT !.log = Append(@, <<p, Other(p), st.cfg[Other(p)] # st.adj[p]>>),
                  !.stack = <<<<"set_property", Other(p), st.adj[p], FALSE>>>> \o @]

\* A cascade in progress: st = [cfg, adj, log, stack].  stack holds the calls
\* still to run, innermost first; log lists the on_scale_changed invocations,
\* each <<adjustment, property written or "", whether the other property
\* differed from the adjustment's value>>.
\*
\* on_scale_changed(adjustment p, other_adjustment Other(p), lock_button)
on_scale_changed(st, p) ==
  IF ~st.cfg.lock_scale
  THEN [st EXCEPT !.log = Append(@, <<p, "", st.cfg[Other(p)] # st.adj[p]>>)]
  ELSE LET new_value == st.adj[p]
           prop_name == Other(p)
       IN  IF st.cfg[prop_name] # new_value
           THEN [st EXCEPT !.log = Append(@, <<p, prop_name, TRUE>>),
                           !.stack = <<<<"set_property", prop_name, new_value, FALSE>>>> \o @]
           ELSE [st EXCEPT !.log = Append(@, <<p, "", FALSE>>)]

\* Gtk.Adjustment.set_value(v) on adjustment p: nothing when the value is
\* unchanged, else the value-changed handlers in connection order
\* (on_scale_changed, update_calculations) and notify::value, which runs the
\* binding back to the config unless the binding itself made the call.  GTK
\* fixes which of the signal and the notification comes first; signal_first
\* leaves it open.
set_value(st, p, v, bound, signal_first) ==
  IF st.adj[p] = v THEN st
  ELSE LET handlers == <<<<"on_scale_changed", p>>, <<"update_calculations">>>>
           binding == IF bound THEN <<>>
                      ELSE <<<<"set_property", p, v, TRUE>>>>
       IN  [st EXCEPT !.adj[p] = v,
                      !.stack = (IF signal_first THEN handlers \o binding
                                 ELSE binding \o handlers) \o @]

\* config.set_property(p, v): notify::p runs the binding to the adjustment
\* unless the binding itself made the call
set_property(st, p, v, bound) ==
  [st EXCEPT !.cfg[p] = v,
             !.stack = (IF bound THEN <<>> ELSE <<<<"set_value", p, v, TRUE>>>>) \o @]

CascadeStep(st, signal_first) ==
  LET c == Head(st.stack)
      rest == [st EXCEPT !.stack = Tail(@)]
  IN  CASE c[1] = "on_scale_changed" -> on_scale_changed(rest, c[2])
        [] c[1] = "set_value" -> set_value(rest, c[2], c[3], c[4], signal_first)
        [] c[1] = "set_property" -> set_property(rest, c[2], c[3], c[4])
        [] OTHER -> rest

RECURSIVE RunCascade(_, _, _)
RunCascade(st, signal_first, fuel) ==
  IF st.stack = <<>> THEN [cfg |-> st.cfg, adj |-> st.adj, log |-> st.log, done |-> TRUE]
  ELSE IF fuel = 0 THEN [cfg |-> st.cfg, adj |-> st.adj, log |-> st.log, done |-> FALSE]
  ELSE RunCascade(CascadeStep(st, signal_first), signal_first, fuel - 1)

NoCascade == [src |-> "", v |-> None, log |-> <<>>, done |-> TRUE, locked |-> FALSE]

----------------------------------------------------------------------------
(* perfectfit_print_run *)

\* source sizes of a run: a valid one and the two degenerate ones
ImageSizes == {<<3, 3>>, <<0, 2>>, <<2, 0>>}
Image(wh) == [width |-> wh[1], height |-> wh[2], res |-> None]

\* the preview area: its size request, and a larger allocation
Viewports == {[width |-> 600, height |-> 400], [width |-> 640, height |-> 480]}

\* every value the procedure's arguments admit (the config keeps the last
\* values used), on the model's grid
Configs ==
  [ width : TargetValues, height : TargetValues, unit : Units,
    x_offset : OffsetValues, y_offset : OffsetValues,
    x_scale : ScaleValues, y_scale : ScaleValues, lock_scale : BOOLEAN ]

\* bind_property(..., BIDIRECTIONAL | SYNC_CREATE): the adjustments start at
\* the config's values
Adjustments(config) ==
  [ x_offset |-> config.x_offset, y_offset |-> config.y_offset,
    x_scale |-> config.x_scale, y_scale |-> config.y_scale ]

Unset == [unset |-> TRUE]
NoDup == [state |-> "none", width |-> 0, height |-> 0, res |-> None]

Init ==
  /\ image \in {Image(wh) : wh \in ImageSizes}
  /\ viewport = [width |-> 600, height |-> 400]
  /\ cfg \in Configs
  /\ adj = Adjustments(cfg)
  /\ cascade = NoCascade
  /\ export = Unset
  /\ preview = Unset
  /\ pc = "start"
  /\ dup = NoDup
  /\ calls = <<>>
  /\ status = ""

\* run_mode != INTERACTIVE
RunNonInteractive ==
  /\ pc = "start"
  /\ pc' = "returned"
  /\ status' = "SUCCESS"
  /\ UNCHANGED <<image, viewport, cfg, adj, cascade, export, preview, dup, calls>>

\* the dialog is built and update_calculations() runs once, outside any try
ShowDialog ==
  /\ pc = "start"
  /\ IF update_calculations(image, cfg, adj) = "raised"
     THEN pc' = "returned" /\ status' = "EXCEPTION"
     ELSE pc' = "dialog" /\ status' = status
  /\ UNCHANGED <<image, viewport, cfg, adj, cascade, export, preview, dup, calls>>

\* the spin buttons and the unit combo write the config; notify::<prop> runs
\* update_calculations
SetWidth ==
  /\ pc = "dialog"
  /\ \E v \in TargetValues \ {cfg.width} : cfg' = [cfg EXCEPT !.width = v]
  /\ cascade' = NoCascade
  /\ UNCHANGED <<image, viewport, adj, export, preview, pc, dup, calls, status>>

SetHeight ==
  /\ pc = "dialog"
  /\ \E v \in TargetValues \ {cfg.height} : cfg' = [cfg EXCEPT !.height = v]
  /\ cascade' = NoCascade
  /\ UNCHANGED <<image, viewport, adj, export, preview, pc, dup, calls, status>>

SetUnit ==
  /\ pc = "dialog"
  /\ \E u \in Units \ {cfg.unit} : cfg' = [cfg EXCEPT !.unit = u]
  /\ cascade' = NoCascade
  /\ UNCHANGED <<image, viewport, adj, export, preview, pc, dup, calls, status>>

\* an offset scrollbar moves: the binding writes the config, value-changed
\* runs update_calculations
SetOffset ==
  /\ pc = "dialog"
  /\ \E p \in {"x_offset", "y_offset"} : \E v \in OffsetValues \ {adj[p]} :
       /\ adj' = [adj EXCEPT ![p] = v]
       /\ cfg' = [cfg EXCEPT ![p] = v]
  /\ cascade' = NoCascade
  /\ UNCHANGED <<image, viewport, export, preview, pc, dup, calls, status>>

\* a scale scrollbar moves to a new value: the whole handler cascade
SetScale ==
  /\ pc = "dialog"
  /\ \E p \in {"x_scale", "y_scale"} : \E v \in ScaleValues \ {adj[p]} :
     \E signal_first \in BOOLEAN :
       LET r == RunCascade([cfg |-> cfg, adj |-> adj, log |-> <<>>,
                            stack |-> <<<<"set_value", p, v, FALSE>>>>],
                           signal_first, MaxCascade)
       IN  /\ cfg' = r.cfg
           /\ adj' = r.adj
           /\ cascade' = [src |-> p, v |-> v, log |-> r.log, done |-> r.done,
                          locked |-> cfg.lock_scale]
  /\ UNCHANGED <<image, viewport, export, preview, pc, dup, calls, status>>

\* the chain button, bound to lock_scale
ToggleLock ==
  /\ pc = "dialog"
  /\ cfg' = [cfg EXCEPT !.lock_scale = ~@]
  /\ cascade' = NoCascade
  /\ UNCHANGED <<image, viewport, adj, export, preview, pc, dup, calls, status>>

\* dialog.run() returns false
DialogCancel ==
  /\ pc = "dialog"
  /\ pc' = "returned"
  /\ status' = "CANCEL"
  /\ cascade' = NoCascade
  /\ UNCHANGED <<image, viewport, cfg, adj, export, preview, dup, calls>>

DialogOK ==
  /\ pc = "dialog"
  /\ pc' = "chooser"
  /\ cascade' = NoCascade
  /\ UNCHANGED <<image, viewport, cfg, adj, export, preview, dup, calls, status>>

\* the file chooser: no save path, or one
ChooserCancel ==
  /\ pc = "chooser"
  /\ pc' = "returned"
  /\ status' = "CANCEL"
  /\ UNCHANGED <<image, viewport, cfg, adj, cascade, export, preview, dup, calls>>

ChooserOK ==
  /\ pc = "chooser"
  /\ pc' = "duplicate"
  /\ UNCHANGED <<image, viewport, cfg, adj, cascade, export, preview, dup, calls, status>>

\* the except clause: the error is reported, then the duplicate, if there is a
\* valid one, is deleted (that delete is taken to succeed)
ExceptClause(cs, d) ==
  LET reported == Append(cs, <<"message", "An error occurred during export">>)
  IN  IF d.state # "alive"
      THEN [calls |-> reported, dup |-> d]
      ELSE [calls |-> Append(reported, <<"gimp-image-delete", "dup">>),
            dup |-> [d EXCEPT !.state = "deleted"]]

\* a statement of the try block raises after the calls cs
Raise(cs, d) ==
  LET r == ExceptClause(cs, d)
  IN  /\ calls' = r.calls
      /\ dup' = r.dup
      /\ status' = "EXECUTION_ERROR"
      /\ pc' = "returned"

Raised(cs, call) == Append(Append(cs, call), <<"raised", call[1]>>)

\* 1. new_image = image.duplicate()
Duplicate ==
  /\ pc = "duplicate"
  /\ LET call == <<"duplicate", "orig">>
     IN  \/ /\ dup' = [state |-> "alive", width |-> image.width,
                       height |-> image.height, res |-> image.res]
            /\ calls' = Append(calls, call)
            /\ pc' = "compute"
            /\ status' = status
         \/ /\ calls' = Append(Append(calls, call),
                               <<"message", "Failed to duplicate image.">>)
            /\ pc' = "returned"
            /\ status' = "EXECUTION_ERROR"
            /\ dup' = dup
         \/ Raise(Raised(calls, call), dup)
  /\ UNCHANGED <<image, viewport, cfg, adj, cascade, export, preview>>

\* 2. export = _compute_crop_and_dpi(new_image, config)
Compute ==
  /\ pc = "compute"
  /\ LET e == _compute_crop_and_dpi(dup, cfg)
     IN  /\ export' = e
         /\ IF IsNone(e)
            THEN /\ calls' = Append(calls, <<"message", "Invalid target size or unit.">>)
                 /\ pc' = "returned"
                 /\ status' = "EXECUTION_ERROR"
                 /\ dup' = dup
            ELSE IF IsRaised(e)
            THEN Raise(calls, dup)
            ELSE /\ pc' = "set_resolution"
                 /\ UNCHANGED <<calls, dup, status>>
  /\ UNCHANGED <<image, viewport, cfg, adj, cascade, preview>>

\* set_resolution called on the image the procedure was given
SetResolution_OnOriginal ==
  /\ pc = "set_resolution"
  /\ LET call == <<"set_resolution", "orig", export.dpi_x, export.dpi_y>>
     IN  \/ /\ calls' = Append(calls, call)
            /\ image' = [image EXCEPT !.res = <<export.dpi_x, export.dpi_y>>]
            /\ dup' = dup
            /\ pc' = "crop"
            /\ status' = status
         \/ /\ Raise(Raised(calls, call), dup)
            /\ image' = image
  /\ UNCHANGED <<viewport, cfg, adj, cascade, export, preview>>

\* new_image.set_resolution(dpi_x, dpi_y)
SetResolution ==
  /\ pc = "set_resolution"
  /\ LET call == <<"set_resolution", "dup", export.dpi_x, export.dpi_y>>
     IN  \/ /\ calls' = Append(calls, call)
            /\ dup' = [dup EXCEPT !.res = <<export.dpi_x, export.dpi_y>>]
            /\ pc' = "crop"
            /\ status' = status
         \/ Raise(Raised(calls, call), dup)
  /\ UNCHANGED <<image, viewport, cfg, adj, cascade, export, preview>>

\* the host's crop: the rectangle must lie in the image and be non-empty,
\* else the image is left as it is
CropApplies(d, w, h, x, y) ==
  w > 0 /\ h > 0 /\ x >= 0 /\ y >= 0 /\ x + w <= d.width /\ y + h <= d.height

\* 3. gimp-image-crop on new_image
Crop ==
  /\ pc = "crop"
  /\ LET call == <<"gimp-image-crop", "dup",
                   export.width, export.height, export.offx, export.offy>>
     IN  \/ /\ calls' = Append(calls, call)
            /\ dup' = IF CropApplies(dup, export.width, export.height,
                                     export.offx, export.offy)
                      THEN [dup EXCEPT !.width = export.width,
                                       !.height = export.height]
                      ELSE dup
            /\ pc' = "save"
            /\ status' = status
         \/ Raise(Raised(calls, call), dup)
  /\ UNCHANGED <<image, viewport, cfg, adj, cascade, export, preview>>

\* 4. gimp-file-save of new_image
Save ==
  /\ pc = "save"
  /\ LET call == <<"gimp-file-save", "dup">>
     IN  \/ /\ calls' = Append(calls, call)
            /\ pc' = "delete"
            /\ UNCHANGED <<dup, status>>
         \/ Raise(Raised(calls, call), dup)
  /\ UNCHANGED <<image, viewport, cfg, adj, cascade, export, preview>>

\* 5. gimp-image-delete of new_image, then Gimp.message("Done!")
Delete ==
  /\ pc = "delete"
  /\ LET call == <<"gimp-image-delete", "dup">>
     IN  \/ /\ calls' = Append(Append(calls, call), <<"message", "Done!">>)
            /\ dup' = [dup EXCEPT !.state = "deleted"]
            /\ pc' = "returned"
            /\ status' = "SUCCESS"
         \/ Raise(Raised(calls, call), dup)
  /\ UNCHANGED <<image, viewport, cfg, adj, cascade, export, preview>>

Next ==
  \/ RunNonInteractive
  \/ ShowDialog
  \/ SetWidth
  \/ SetHeight
  \/ SetUnit
  \/ SetOffset
  \/ SetScale
  \/ ToggleLock
  \/ DialogCancel
  \/ DialogOK
  \/ ChooserCancel
  \/ ChooserOK
  \/ Duplicate
  \/ Compute
  \/ SetResolution
  \/ Crop
  \/ Save
  \/ Delete

Spec == Init /\ [][Next]_vars

----------------------------------------------------------------------------
(* The geometry on its own: _compute_crop_and_dpi and draw_preview applied *)
(* to drawn inputs                                                        *)

\* target width and height of the drawn inputs are 1..GeomMaxTarget
GeomMaxTarget == 3

GeomImageSizes == {<<3, 3>>, <<3, 2>>, <<2, 3>>, <<3000, 2000>>, <<0, 2>>}

GeomConfigs ==
  [ width : 1..GeomMaxTarget, height : 1..GeomMaxTarget, unit : {"inch", "mm"},
    x_offset : OffsetValues, y_offset : OffsetValues,
    x_scale : ScaleValues, y_scale : ScaleValues, lock_scale : {TRUE} ]

\* the documented scenario: a 4x6 inch print, no pan and no zoom
ScenarioConfigs ==
  { [ width |-> 4, height |-> 6, unit |-> "inch",
      x_offset |-> <<0, 1>>, y_offset |-> <<0, 1>>,
      x_scale |-> <<1, 1>>, y_scale |-> <<1, 1>>, lock_scale |-> TRUE ] }

GeomInit ==
  /\ image \in {Image(wh) : wh \in GeomImageSizes}
  /\ viewport = [width |-> 600, height |-> 400]
  /\ cfg \in GeomConfigs \cup ScenarioConfigs
  /\ adj = Adjustments(cfg)
  /\ cascade = NoCascade
  /\ export = Unset
  /\ preview = Unset
  /\ pc = "geometry"
  /\ dup = NoDup
  /\ calls = <<>>
  /\ status = ""

GeomCompute ==
  /\ pc = "geometry"
  /\ export = Unset
  /\ export' = _compute_crop_and_dpi(image, cfg)
  /\ UNCHANGED <<image, viewport, cfg, adj, cascade, preview, pc, dup, calls, status>>

\* the redraw update_calculations queues, at the preview area's allocation
GeomDraw ==
  /\ pc = "geometry"
  /\ export # Unset
  /\ preview = Unset
  /\ \E alloc \in Viewports :
       /\ viewport' = alloc
       /\ preview' = draw_preview(image, cfg, adj, alloc)
  /\ UNCHANGED <<image, cfg, adj, cascade, export, pc, dup, calls, status>>

GeomNext ==
  \/ GeomCompute
  \/ GeomDraw

GeomSpec == GeomInit /\ [][GeomNext]_vars

----------------------------------------------------------------------------
(* Properties of the run *)

HasCall(op) == \E i \in 1..Len(calls) : calls[i][1] = op

\* the i-th call is a delete of the duplicate that did not raise
DeletedAt(i) ==
  /\ calls[i] = <<"gimp-image-delete", "dup">>
  /\ ~(i < Len(calls) /\ calls[i + 1] = <<"raised", "gimp-image-delete">>)

ErrorReportedAt(j) == calls[j] = <<"message", "An error occurred during export">>

TargetInvalid(config) ==
  config.width <= 0 \/ config.height <= 0 \/ get_factor(config.unit)[1] = 0

Degenerate(img) == img.width = 0 \/ img.height = 0

\* C1: whenever the procedure has returned and image.duplicate() had given a
\* working image, that duplicate has been deleted.
C1_DuplicateDeletedOnReturn ==
  (pc = "returned" /\ dup.state # "none") => dup.state = "deleted"

\* C2: every rectangle passed to gimp-image-crop for a valid source lies
\* inside the source: offx >= 0, offy >= 0, offx + width <= pixel_width,
\* offy + height <= pixel_height.
C2_CropWithinSource ==
  \A i \in 1..Len(calls) :
    (calls[i][1] = "gimp-image-crop" /\ ~Degenerate(image)) =>
      LET w == calls[i][3]
          h == calls[i][4]
          x == calls[i][5]
          y == calls[i][6]
      IN  x >= 0 /\ y >= 0 /\ x + w <= image.width /\ y + h <= image.height

\* a scale scrollbar was just moved with lock_scale active
LockedScaleChange == cascade.src # "" /\ cascade.locked

\* C6 (as amended): with lock_scale active, the cascade of a scale change to v
\* ends with both config scales and both adjustments at v; on_scale_changed
\* runs at most twice, writes a property only when its value differs from v,
\* and writes no property twice.
C6_LockedScalesConverge ==
  LockedScaleChange =>
    /\ cascade.done
    /\ cfg.x_scale = cascade.v /\ cfg.y_scale = cascade.v
    /\ adj.x_scale = cascade.v /\ adj.y_scale = cascade.v
    /\ Len(cascade.log) <= 2
    /\ \A i \in 1..Len(cascade.log) :
         (cascade.log[i][2] # "") = cascade.log[i][3]
    /\ \A i, j \in 1..Len(cascade.log) :
         (i # j /\ cascade.log[i][2] # "") => cascade.log[i][2] # cascade.log[j][2]

\* C6 witness: the first invocation mirrored the value and the second ran
C6_Witness ==
  /\ LockedScaleChange
  /\ Len(cascade.log) = 2
  /\ cascade.log[1][2] = Other(cascade.src)

\* C6 as claimed: the cascade ends with x_scale = y_scale = v and the second
\* on_scale_changed invocation performs no write.
C6_SecondInvocationWritesNothing ==
  LockedScaleChange =>
    /\ cascade.done
    /\ cfg.x_scale = cascade.v /\ cfg.y_scale = cascade.v
    /\ \A i \in 2..Len(cascade.log) : cascade.log[i][2] = ""

\* C7: an invalid target (width <= 0, height <= 0 or unit factor 0) gives
\* (None, None) and None, and the export makes no set_resolution, crop or
\* save; a valid target gives a crop result for a source of positive size.
C7_InvalidTargetNoCrop ==
  /\ TargetInvalid(cfg) =>
       /\ _compute_target_inches(cfg) = <<None, None>>
       /\ _compute_crop_and_dpi(image, cfg) = CropNone
       /\ export \in {Unset, CropNone}
       /\ ~HasCall("set_resolution")
       /\ ~HasCall("gimp-image-crop")
       /\ ~HasCall("gimp-file-save")
  /\ (~TargetInvalid(cfg) /\ ~Degenerate(image)) =>
       /\ IsDict(_compute_crop_and_dpi(image, cfg))
       /\ export = Unset \/ IsDict(export)

\* C7 witness: an export with a unit of factor 0 has returned
C7_Witness ==
  /\ pc = "returned"
  /\ cfg.width > 0 /\ cfg.height > 0 /\ get_factor(cfg.unit)[1] = 0
  /\ export = CropNone

\* C8: for a source of width 0 or height 0 the export makes no
\* set_resolution, gimp-image-crop or gimp-file-save, and the preview draws
\* the placeholder.
C8_DegenerateSourceBlocked ==
  Degenerate(image) =>
    /\ ~HasCall("set_resolution")
    /\ ~HasCall("gimp-image-crop")
    /\ ~HasCall("gimp-file-save")
    /\ IsPlaceholder(draw_preview(image, cfg, adj, viewport))

\* C9: when the procedure has returned after reporting an export error with
\* a duplicate created, the duplicate was deleted before the report.
C9_DeleteBeforeReport ==
  (pc = "returned" /\ dup.state # "none") =>
    \A j \in 1..Len(calls) :
      ErrorReportedAt(j) => \E i \in 1..(j - 1) : DeletedAt(i)

----------------------------------------------------------------------------
(* Properties of the geometry *)

\* the crop has been computed for a source of positive size
Computed == IsDict(export) /\ ~Degenerate(image)

Locals == _crop_locals(image, cfg)

\* the selection extent and its centred origin, from the inputs
SelW == RDiv(RInt(image.width), cfg.x_scale)
SelH == RDiv(RInt(image.height), cfg.y_scale)
SelOriginX == RDiv(RSub(RInt(image.width), SelW), RInt(2))
SelOriginY == RDiv(RSub(RInt(image.height), SelH), RInt(2))

\* |a - b| <= one pixel of a raster of n pixels plus one of a raster of m
Close(a, b, n, m) == RLe(RAbs(RSub(a, b)), RAdd(Rat(1, n), Rat(1, m)))

\* C3: the preview's crop rectangle and the export crop agree in relative
\* position and size: (crop_x - dest_x)/display_w = offx/pixel_width and
\* crop_w_display/display_w = width/pixel_width, likewise for y, up to one
\* pixel of rounding.
C3_PreviewMatchesExport ==
  (Computed /\ IsPlacement(preview)) =>
    LET W == image.width
        H == image.height
        dw == preview.display_w
        dh == preview.display_h
    IN  /\ Close(RDiv(RSub(preview.crop_x, RInt(preview.dest_x)), RInt(dw)),
                 Rat(export.offx, W), dw, W)
        /\ Close(RDiv(RSub(preview.crop_y, RInt(preview.dest_y)), RInt(dh)),
                 Rat(export.offy, H), dh, H)
        /\ Close(Rat(preview.crop_w_display, dw), Rat(export.width, W), dw, W)
        /\ Close(Rat(preview.crop_h_display, dh), Rat(export.height, H), dh, H)

\* C4: the result has dpi_x = dpi_y, and the unrounded crop has the target's
\* aspect ratio: cropped_sel_w * target_height_in = cropped_sel_h *
\* target_width_in.
C4_EqualDpi ==
  IsDict(export) =>
    LET l == Locals
    IN  /\ export.dpi_x = export.dpi_y
        /\ RMul(l.cropped_sel_w, export.target_height_in)
             = RMul(l.cropped_sel_h, export.target_width_in)

\* C4 witness: a width-constrained crop of a zoomed selection
C4_Witness ==
  /\ Computed
  /\ RLt(Locals.selection_aspect, Locals.target_aspect)
  /\ cfg.x_scale # cfg.y_scale
  /\ cfg.unit = "mm"

\* C5: the unrounded crop never exceeds the selection extent
\* (pixel_width / x_scale, pixel_height / y_scale).
C5_CropWithinSelection ==
  Computed =>
    LET l == Locals
    IN  /\ l.full_sel_w = SelW
        /\ l.full_sel_h = SelH
        /\ RLe(l.cropped_sel_w, SelW)
        /\ RLe(l.cropped_sel_h, SelH)

\* C5 witness: target_aspect = selection_aspect, under zoom
C5_Witness ==
  /\ Computed
  /\ Locals.selection_aspect = Locals.target_aspect
  /\ cfg.x_scale # <<1, 1>>

\* the result's origin with the offsets replaced
OffxAt(o) == _compute_crop_and_dpi(image, [cfg EXCEPT !.x_offset = o]).offx
OffyAt(o) == _compute_crop_and_dpi(image, [cfg EXCEPT !.y_offset = o]).offy

\* C10: offset -0.5 puts the crop at the selection origin, offset 0.5 at the
\* selection origin plus the slack (each rounded to a pixel), and the origin
\* is non-decreasing in the offset; on both axes.
C10_OffsetExtremes ==
  Computed =>
    LET l == Locals
    IN  /\ cfg.x_offset = <<-1, 2>> => export.offx = RoundHalfEven(SelOriginX)
        /\ cfg.x_offset = <<1, 2>> =>
             export.offx = RoundHalfEven(RAdd(SelOriginX, RSub(SelW, l.cropped_sel_w)))
        /\ \A o \in OffsetValues : RLe(cfg.x_offset, o) => export.offx <= OffxAt(o)
        /\ cfg.y_offset = <<-1, 2>> => export.offy = RoundHalfEven(SelOriginY)
        /\ cfg.y_offset = <<1, 2>> =>
             export.offy = RoundHalfEven(RAdd(SelOriginY, RSub(SelH, l.cropped_sel_h)))
        /\ \A o \in OffsetValues : RLe(cfg.y_offset, o) => export.offy <= OffyAt(o)

\* C10 witness: the crop at the right end of a slack of more than a pixel
C10_Witness ==
  /\ Computed
  /\ cfg.x_offset = <<1, 2>>
  /\ export.offx > RoundHalfEven(SelOriginX) + 1
  /\ cfg.x_scale # <<1, 1>>

\* no pan and no zoom
Centred ==
  /\ cfg.x_offset = <<0, 1>> /\ cfg.y_offset = <<0, 1>>
  /\ cfg.x_scale = <<1, 1>> /\ cfg.y_scale = <<1, 1>>

\* the centre position of an extent e in a dimension of n pixels
Centre(n, e) == RDiv(RSub(RInt(n), e), RInt(2))

\* C11 (as amended): with offsets 0 and scales 1 the unrounded crop origin is
\* exactly ((pixel_width - cropped_sel_w)/2, (pixel_height - cropped_sel_h)/2),
\* the returned origin is that value rounded to a pixel, and it is less than
\* one pixel from the centre position of the returned (rounded) size.
C11_CentredCrop ==
  (Computed /\ Centred) =>
    LET l == Locals
    IN  /\ l.crop_origin_x = Centre(image.width, l.cropped_sel_w)
        /\ l.crop_origin_y = Centre(image.height, l.cropped_sel_h)
        /\ export.offx = RoundHalfEven(Centre(image.width, l.cropped_sel_w))
        /\ export.offy = RoundHalfEven(Centre(image.height, l.cropped_sel_h))
        /\ RLt(RAbs(RSub(RInt(export.offx), Centre(image.width, RInt(export.width)))),
               RInt(1))
        /\ RLt(RAbs(RSub(RInt(export.offy), Centre(image.height, RInt(export.height)))),
               RInt(1))

\* C11 witness: a centred crop whose width is not a whole number of pixels
C11_Witness ==
  /\ Computed
  /\ Centred
  /\ Locals.cropped_sel_w # RInt(export.width)
  /\ export.offx > 0

\* C11 as claimed: with offsets 0 and scales 1 the returned origin equals
\* ((pixel_width - width)/2, (pixel_height - height)/2) of the returned size.
C11_ExactCentre ==
  (Computed /\ Centred) =>
    /\ RInt(export.offx) = Centre(image.width, RInt(export.width))
    /\ RInt(export.offy) = Centre(image.height, RInt(export.height))

\* the scenario's inputs: source 3000x2000, target 4x6 inch, scale (1,1),
\* offset (0,0), with the crop computed
Scenario4x6 ==
  /\ image.width = 3000 /\ image.height = 2000
  /\ cfg \in ScenarioConfigs
  /\ IsDict(export)

\* C12 (as amended): the scenario takes the height-constrained branch and
\* yields crop height 2000, crop width 4000/3 returned as 1333, and a
\* resolution of 1000/3, about 333 DPI, on both axes.
C12_Scenario4x6 ==
  Scenario4x6 =>
    /\ ~RLt(Locals.selection_aspect, Locals.target_aspect)
    /\ Locals.cropped_sel_h = Locals.full_sel_h
    /\ export.height = 2000
    /\ Locals.cropped_sel_w = Rat(4000, 3)
    /\ export.width = 1333
    /\ export.dpi_x = Rat(1000, 3)
    /\ export.dpi_y = Rat(1000, 3)
    /\ RoundHalfEven(export.dpi_x) = 333

\* C12 witness: the scenario's crop has been computed
C12_Witness ==
  /\ Scenario4x6
  /\ export.width = 1333
  /\ export.offx = 833

\* C12 as claimed: height-constrained, crop height 2000, crop width about
\* 1333, and a resolution of about 222 DPI (within 1) on both axes.
C12_Scenario222Dpi ==
  Scenario4x6 =>
    /\ ~RLt(Locals.selection_aspect, Locals.target_aspect)
    /\ export.height = 2000
    /\ export.width = 1333
    /\ RLe(RAbs(RSub(export.dpi_x, RInt(222))), RInt(1))
    /\ RLe(RAbs(RSub(export.dpi_y, RInt(222))), RInt(1))

\* C13: the crop rectangle the preview draws lies inside the rendered image:
\* dest_x <= crop_x and crop_x + crop_w_display <= dest_x + display_w, and
\* likewise for y, with crop_x and crop_y as clamped by max(0, ...).
C13_CropInsideRenderedImage ==
  IsPlacement(preview) =>
    /\ RLe(RInt(preview.dest_x), preview.crop_x)
    /\ RLe(RAdd(preview.crop_x, RInt(preview.crop_w_display)),
           RInt(preview.dest_x + preview.display_w))
    /\ RLe(RInt(preview.dest_y), preview.crop_y)
    /\ RLe(RAdd(preview.crop_y, RInt(preview.crop_h_display)),
           RInt(preview.dest_y + preview.display_h))

\* C13 witness: a zoomed image shifted past the viewport's left edge, the
\* crop rectangle held at 0 by the clamp
C13_Witness ==
  /\ IsPlacement(preview)
  /\ preview.dest_x < 0
  /\ preview.crop_x = RInt(0)
  /\ preview.display_w > viewport.width
  /\ adj.x_offset = <<-1, 2>>

\* the i-th call was made and did not raise
Succeeded(i) == ~(i < Len(calls) /\ calls[i + 1][1] = "raised")

\* set_resolution and gimp-image-crop are called on the duplicate only, after
\* image.duplicate(), and the crop after a set_resolution on the duplicate
ExportOnDuplicateOnly ==
  \A i \in 1..Len(calls) :
    /\ calls[i][1] \in {"set_resolution", "gimp-image-crop"} =>
         /\ calls[i][2] = "dup"
         /\ \E j \in 1..(i - 1) : calls[j] = <<"duplicate", "orig">> /\ Succeeded(j)
    /\ calls[i][1] = "gimp-image-crop" =>
         \E j \in 1..(i - 1) :
           /\ calls[j][1] = "set_resolution"
           /\ calls[j][2] = "dup"
           /\ Succeeded(j)

\* C14: the export never modifies the original image: set_resolution and
\* gimp-image-crop are applied only to the duplicate, set_resolution before
\* the crop, and no step of any path changes the original's dimensions or
\* resolution.
C14_OriginalUntouched ==
  /\ [](ExportOnDuplicateOnly /\ image.res = None)
  /\ [][image' = image]_vars

\* C14 witness: a successful export whose duplicate was given a resolution
\* and cropped to a smaller size than the original has
C14_Witness ==
  /\ pc = "returned"
  /\ status = "SUCCESS"
  /\ HasCall("gimp-image-crop")
  /\ dup.state = "deleted"
  /\ dup.res # None
  /\ dup.width < image.width
  /\ image.res = None

\* C15: the rounded origin plus the rounded size exceeds the source by at
\* most one pixel per axis: offx + width <= pixel_width + 1 and
\* offy + height <= pixel_height + 1, while the unrounded crop ends inside
\* the source.
C15_OvershootAtMostOnePixel ==
  Computed =>
    LET l == Locals
    IN  /\ RLe(RAdd(l.crop_origin_x, l.cropped_sel_w), RInt(image.width))
        /\ RLe(RAdd(l.crop_origin_y, l.cropped_sel_h), RInt(image.height))
        /\ export.offx + export.width <= image.width + 1
        /\ export.offy + export.height <= image.height + 1

\* C15 witness: origin and size both rounded up, one pixel past the source
C15_Witness ==
  /\ Computed
  /\ export.offx + export.width = image.width + 1
  /\ RLt(Locals.crop_origin_x, RInt(export.offx))
  /\ RLt(Locals.cropped_sel_w, RInt(export.width))

====
